---- MODULE Spec2Model ----
(***************************************************************************)
(* IBTK::FixedSizedStream: a fixed-capacity byte buffer with a cursor      *)
(* (d_buffer_index) and a high-water mark (d_current_size), packed and     *)
(* unpacked through getPointerAndAdvanceCursor().                          *)
(*                                                                         *)
(* A value of a raw-copied kind (char, int, float, double, dcomplex) is    *)
(* modelled by its object representation, the sequence of bytes that       *)
(* std::memcpy moves; a bool is a BOOLEAN, converted element by element.   *)
(* Offsets are 0-based as in the source: d_buffer is a function on         *)
(* 0 .. d_buffer_size - 1.                                                 *)
(***************************************************************************)
EXTENDS Integers, Sequences, FiniteSets, TLC

VARIABLES
    d_buffer_size,    \* capacity of the buffer, in bytes
    d_current_size,   \* high-water mark
    d_buffer_index,   \* cursor
    d_buffer,         \* the bytes, [0 .. d_buffer_size - 1 -> Byte]
    status,           \* "ok" | "overrun" (TBOX_ERROR raised) | "undefined"
    out,              \* the caller's output array of the last unpack
    touched,          \* offsets the last call read or wrote through its pointer
    call,             \* the last call: [op, kind, n, arg] (arg: the index passed)
    hist,             \* history: largest cursor held, largest end offsets reached,
                      \* whether every index passed so far was in 0 .. capacity
    nops,             \* number of calls made so far
    pc,               \* position of the scripted caller
    log,              \* the arrays the scripted caller has packed
    got               \* the arrays the scripted caller has unpacked

driver == <<pc, log, got>>
vars == <<d_buffer_size, d_current_size, d_buffer_index, d_buffer, status, out,
          touched, call, hist, nops, pc, log, got>>

----------------------------------------------------------------------------
(* Bounds of the model. *)

\* Capacity the stream is constructed with.
BufferSize == 16
\* Largest element count n of one pack or unpack call.
MaxN == 2
\* Number of calls of one run of the general specification.
MaxOps == 3
\* Number of pack calls of one round trip.
MaxSeq == 2
\* setCurrentIndex takes its argument from -IndexSlack .. BufferSize + IndexSlack.
IndexSlack == 1
\* Largest byte count of a pack call of the two-context specification.
MaxRaceBytes == 4
\* Number of MPI processes of the registration specification.
NumProcs == 2
\* Calls of registerWithStreamableManager one process makes.
MaxCalls == 2
\* Factories of other classes one process registers with its manager.
MaxOther == 1

----------------------------------------------------------------------------
(* Kinds, packed sizes and inputs. *)

Kinds == {"bool", "char", "dcomplex", "double", "float", "int"}

\* SAMRAI::tbox::AbstractStream::sizeofXXX(n): packed size of n elements.
sizeofBool(n) == n * 1
sizeofChar(n) == n * 1
sizeofDoubleComplex(n) == n * 16
sizeofDouble(n) == n * 8
sizeofFloat(n) == n * 4
sizeofInt(n) == n * 4

Max(a, b) == IF a >= b THEN a ELSE b

RECURSIVE Concat(_)
Concat(ss) == IF ss = <<>> THEN <<>> ELSE Head(ss) \o Concat(Tail(ss))

\* Two element values per kind (object representations, native little-endian):
\* 'A' and '\xff'; 42 and -2; 1.0f and -2.5f; 3.14 and 1.0; (3.14, 1.0) and (1.0, 3.14).
Elems(K) ==
    CASE K = "bool" -> <<TRUE, FALSE>>
      [] K = "char" -> << <<65>>, <<255>> >>
      [] K = "int" -> << <<42, 0, 0, 0>>, <<254, 255, 255, 255>> >>
      [] K = "float" -> << <<0, 0, 128, 63>>, <<0, 0, 32, 192>> >>
      [] K = "double" -> << <<31, 133, 235, 81, 184, 30, 9, 64>>, <<0, 0, 0, 0, 0, 0, 240, 63>> >>
      [] K = "dcomplex" -> << <<31, 133, 235, 81, 184, 30, 9, 64, 0, 0, 0, 0, 0, 0, 240, 63>>,
                              <<0, 0, 0, 0, 0, 0, 240, 63, 31, 133, 235, 81, 184, 30, 9, 64>> >>

\* The n-element arrays a caller passes: the two values alternating, from either one.
ElemArrays(K, n) == { [k \in 1 .. n |-> Elems(K)[((s + k) % 2) + 1]] : s \in 0 .. 1 }

\* The array as pack() receives it: BOOLEANs for bool, else the bytes of the elements.
InputArrays(K, n) == IF K = "bool" THEN ElemArrays(K, n)
                     ELSE { Concat(a) : a \in ElemArrays(K, n) }

----------------------------------------------------------------------------
(* Accessors and cursor repositioning. *)

getCurrentSize == d_current_size

getCurrentIndex == d_buffer_index

\* Variant: an index outside [0, capacity] is reported as an error.
SetCurrentIndexChecked(index) ==
    /\ d_buffer_index' = index
    /\ touched' = {}
    /\ status' = IF index \in 0 .. d_buffer_size THEN status ELSE "overrun"
    /\ UNCHANGED <<d_buffer_size, d_current_size, d_buffer, out>>

\* Variant: the index is clamped into [0, capacity].
SetCurrentIndexClamped(index) ==
    /\ d_buffer_index' = IF index < 0 THEN 0
                         ELSE IF index > d_buffer_size THEN d_buffer_size ELSE index
    /\ touched' = {}
    /\ UNCHANGED <<d_buffer_size, d_current_size, d_buffer, status, out>>

setCurrentIndex(index) ==
    /\ d_buffer_index' = index
    /\ touched' = {}
    /\ UNCHANGED <<d_buffer_size, d_current_size, d_buffer, status, out>>

\* Variant: the reset starts the stream over, the mark included.
ResetAlsoClearsSize ==
    /\ d_buffer_index' = 0
    /\ d_current_size' = 0
    /\ touched' = {}
    /\ UNCHANGED <<d_buffer_size, d_buffer, status, out>>

resetIndex == setCurrentIndex(0)

----------------------------------------------------------------------------
(* The packing helpers. *)

\* Variant: the capacity test looks at the cursor before it is advanced.
GPAC_ChecksOldCursor(index, size, bytes) ==
    LET advanced == index + bytes
    IN  [ptr |-> index,
         d_buffer_index |-> advanced,
         d_current_size |-> IF advanced > size THEN advanced ELSE size,
         error |-> advanced > size /\ index > d_buffer_size]

\* Variant: the capacity test is off by one (>= written as > against size + 1).
GPAC_OffByOne(index, size, bytes) ==
    LET advanced == index + bytes
    IN  [ptr |-> index,
         d_buffer_index |-> advanced,
         d_current_size |-> IF advanced > size THEN advanced ELSE size,
         error |-> advanced > size /\ advanced > d_buffer_size + 1]

\* Variant: the mark is assigned the cursor on every call, not only when it grows.
GPAC_MarkFollowsCursor(index, size, bytes) ==
    LET advanced == index + bytes
    IN  [ptr |-> index,
         d_buffer_index |-> advanced,
         d_current_size |-> advanced,
         error |-> advanced > size /\ advanced > d_buffer_size]

\* Variant: the mark is never assigned.
GPAC_NoMark(index, size, bytes) ==
    LET advanced == index + bytes
    IN  [ptr |-> index,
         d_buffer_index |-> advanced,
         d_current_size |-> size,
         error |-> advanced > size /\ advanced > d_buffer_size]

\* Variant: the pointer is taken at the mark (the stream only ever appends).
GPAC_PointerAtMark(index, size, bytes) ==
    LET advanced == index + bytes
    IN  [ptr |-> size,
         d_buffer_index |-> advanced,
         d_current_size |-> IF advanced > size THEN advanced ELSE size,
         error |-> advanced > size /\ advanced > d_buffer_size]

\* Variant: the capacity test is written with >= and rejects an exact fit.
GPAC_RejectsExactFit(index, size, bytes) ==
    LET advanced == index + bytes
    IN  [ptr |-> index,
         d_buffer_index |-> advanced,
         d_current_size |-> IF advanced > size THEN advanced ELSE size,
         error |-> advanced > size /\ advanced >= d_buffer_size]

\* Variant: the capacity test is made first, and a failing call changes nothing.
GPAC_ChecksBeforeAdvance(index, size, bytes) ==
    LET advanced == index + bytes
        error == advanced > size /\ advanced > d_buffer_size
    IN  [ptr |-> index,
         d_buffer_index |-> IF error THEN index ELSE advanced,
         d_current_size |-> IF error THEN size
                            ELSE IF advanced > size THEN advanced ELSE size,
         error |-> error]

\* Variant: a call for zero bytes returns at once.
GPAC_ZeroBytesNoOp(index, size, bytes) ==
    LET advanced == index + bytes
    IN  [ptr |-> index,
         d_buffer_index |-> advanced,
         d_current_size |-> IF bytes > 0 /\ advanced > size THEN advanced ELSE size,
         error |-> bytes > 0 /\ advanced > size /\ advanced > d_buffer_size]

\* What getPointerAndAdvanceCursor(bytes) does to a cursor `index` and a mark
\* `size`: the pointer it computes first, the advanced cursor, the mark, and
\* whether TBOX_ERROR is raised (tested only when the cursor passed the mark).
getPointerAndAdvanceCursor(index, size, bytes) ==
    LET advanced == index + bytes
    IN  [ptr |-> index,
         d_buffer_index |-> advanced,
         d_current_size |-> IF advanced > size THEN advanced ELSE size,
         error |-> advanced > size /\ advanced > d_buffer_size]

InBuffer(ptr, bytes) == ptr >= 0 /\ ptr + bytes <= d_buffer_size

\* The buffer after `bytes` bytes of src are stored from offset ptr on.
Stored(ptr, src, bytes) ==
    [o \in DOMAIN d_buffer |->
        IF o >= ptr /\ o < ptr + bytes THEN src[o - ptr + 1] ELSE d_buffer[o]]

\* The bytes read from offset ptr on; a byte outside the buffer reads as junk.
Loaded(ptr, bytes, junk) ==
    [k \in 1 .. bytes |->
        IF ptr + k - 1 \in DOMAIN d_buffer THEN d_buffer[ptr + k - 1] ELSE junk]

JunkBytes == {0, 1}

\* Cursor, mark and status after the call r == getPointerAndAdvanceCursor(..):
\* TBOX_ERROR aborts the call; a pointer outside the buffer makes the copy undefined.
Advance(r, bytes) ==
    /\ d_buffer_index' = r.d_buffer_index
    /\ d_current_size' = r.d_current_size
    /\ status' = IF r.error THEN "overrun"
                 ELSE IF InBuffer(r.ptr, bytes) THEN "ok" ELSE "undefined"
    /\ touched' = IF r.error THEN {} ELSE r.ptr .. r.ptr + bytes - 1
    /\ UNCHANGED d_buffer_size

\* Variant: the bytes that fit are copied before the capacity test is acted on.
PackCopiesBeforeCheck(m_data, m_bytes) ==
    LET r == getPointerAndAdvanceCursor(d_buffer_index, d_current_size, m_bytes)
    IN  /\ Advance(r, m_bytes)
        /\ d_buffer' = Stored(r.ptr, m_data, m_bytes)
        /\ out' = out

\* Variant: a span that does not fit makes the buffer grow instead of failing.
PackGrowsBuffer(m_data, m_bytes) ==
    LET advanced == d_buffer_index + m_bytes
        newsize == IF advanced > d_buffer_size THEN advanced ELSE d_buffer_size
    IN  /\ d_buffer_index' = advanced
        /\ d_current_size' = IF advanced > d_current_size THEN advanced ELSE d_current_size
        /\ d_buffer_size' = newsize
        /\ status' = IF d_buffer_index >= 0 THEN "ok" ELSE "undefined"
        /\ touched' = d_buffer_index .. advanced - 1
        /\ d_buffer' = [o \in 0 .. newsize - 1 |->
                           IF o >= d_buffer_index /\ o < advanced
                           THEN m_data[o - d_buffer_index + 1]
                           ELSE IF o \in DOMAIN d_buffer THEN d_buffer[o] ELSE 0]
        /\ out' = out

\* Variant: a one-byte length tag is stored in front of the data.
PackWritesLengthTag(m_data, m_bytes) ==
    LET r == getPointerAndAdvanceCursor(d_buffer_index, d_current_size, m_bytes + 1)
    IN  /\ Advance(r, m_bytes + 1)
        /\ d_buffer' = IF r.error THEN d_buffer
                       ELSE Stored(r.ptr, <<m_bytes>> \o m_data, m_bytes + 1)
        /\ out' = out

\* Variant: a terminating zero byte is stored behind the data.
PackAppendsTerminator(m_data, m_bytes) ==
    LET r == getPointerAndAdvanceCursor(d_buffer_index, d_current_size, m_bytes)
    IN  /\ Advance(r, m_bytes)
        /\ d_buffer' = IF r.error THEN d_buffer
                       ELSE Stored(r.ptr, m_data \o <<0>>, m_bytes + 1)
        /\ out' = out

__pack(m_data, m_bytes) ==
    LET r == getPointerAndAdvanceCursor(d_buffer_index, d_current_size, m_bytes)
    IN  /\ Advance(r, m_bytes)
        /\ d_buffer' = IF r.error THEN d_buffer ELSE Stored(r.ptr, m_data, m_bytes)
        /\ out' = out

\* Variant: the pointer is taken after the cursor has been advanced.
UnpackReadsAfterAdvance(m_bytes) ==
    LET r == getPointerAndAdvanceCursor(d_buffer_index, d_current_size, m_bytes)
    IN  /\ Advance(r, m_bytes)
        /\ d_buffer' = d_buffer
        /\ IF r.error THEN out' = out
           ELSE out' = Loaded(r.d_buffer_index, m_bytes, 0)

\* Variant: a read does not move the mark.
UnpackKeepsMark(m_bytes) ==
    LET r0 == getPointerAndAdvanceCursor(d_buffer_index, d_current_size, m_bytes)
        r == [r0 EXCEPT !.d_current_size = d_current_size]
    IN  /\ Advance(r, m_bytes)
        /\ d_buffer' = d_buffer
        /\ IF r.error THEN out' = out
           ELSE \E junk \in (IF InBuffer(r.ptr, m_bytes) THEN {0} ELSE JunkBytes) :
                    out' = Loaded(r.ptr, m_bytes, junk)

\* Variant: the bytes read are cleared in the buffer.
UnpackConsumes(m_bytes) ==
    LET r == getPointerAndAdvanceCursor(d_buffer_index, d_current_size, m_bytes)
    IN  /\ Advance(r, m_bytes)
        /\ d_buffer' = IF r.error THEN d_buffer
                       ELSE Stored(r.ptr, [k \in 1 .. m_bytes |-> 0], m_bytes)
        /\ IF r.error THEN out' = out
           ELSE \E junk \in (IF InBuffer(r.ptr, m_bytes) THEN {0} ELSE JunkBytes) :
                    out' = Loaded(r.ptr, m_bytes, junk)

__unpack(m_bytes) ==
    LET r == getPointerAndAdvanceCursor(d_buffer_index, d_current_size, m_bytes)
    IN  /\ Advance(r, m_bytes)
        /\ d_buffer' = d_buffer
        /\ IF r.error THEN out' = out
           ELSE \E junk \in (IF InBuffer(r.ptr, m_bytes) THEN {0} ELSE JunkBytes) :
                    out' = Loaded(r.ptr, m_bytes, junk)

----------------------------------------------------------------------------
(* The typed entry points. *)

\* Variant: the conversion loop stops one element early (i < n - 1).
PackBoolSkipsLast(data, n) ==
    LET bytes == sizeofBool(n)
        r == getPointerAndAdvanceCursor(d_buffer_index, d_current_size, bytes)
        c == [i \in 1 .. n |-> IF data[i] THEN 1 ELSE 0]
    IN  /\ Advance(r, bytes)
        /\ d_buffer' = IF r.error THEN d_buffer ELSE Stored(r.ptr, c, n - 1)
        /\ out' = out

\* Variant: the loop asks for one byte per element, so the elements that fit
\* are stored before the capacity test fails.
PackBoolPerElement(data, n) ==
    LET c == [i \in 1 .. n |-> IF data[i] THEN 1 ELSE 0]
        fail == {k \in 1 .. n : d_buffer_index + k > d_current_size
                                /\ d_buffer_index + k > d_buffer_size}
        done == IF fail = {} THEN n ELSE (CHOOSE k \in fail : \A j \in fail : k <= j) - 1
        advanced == d_buffer_index + (IF fail = {} THEN n ELSE done + 1)
    IN  /\ d_buffer_index' = advanced
        /\ d_current_size' = IF advanced > d_current_size THEN advanced ELSE d_current_size
        /\ status' = IF fail # {} THEN "overrun"
                     ELSE IF InBuffer(d_buffer_index, n) THEN "ok" ELSE "undefined"
        /\ touched' = d_buffer_index .. d_buffer_index + done - 1
        /\ d_buffer' = Stored(d_buffer_index, c, done)
        /\ UNCHANGED <<d_buffer_size, out>>

\* Variant: true is stored as the all-ones byte.
PackBoolStoresAllOnes(data, n) ==
    LET bytes == sizeofBool(n)
        r == getPointerAndAdvanceCursor(d_buffer_index, d_current_size, bytes)
        c == [i \in 1 .. n |-> IF data[i] THEN 255 ELSE 0]
    IN  /\ Advance(r, bytes)
        /\ d_buffer' = IF r.error THEN d_buffer ELSE Stored(r.ptr, c, n)
        /\ out' = out

pack_bool(data, n) ==
    LET bytes == sizeofBool(n)
        r == getPointerAndAdvanceCursor(d_buffer_index, d_current_size, bytes)
        c == [i \in 1 .. n |-> IF data[i] THEN 1 ELSE 0]
    IN  /\ Advance(r, bytes)
        /\ d_buffer' = IF r.error THEN d_buffer ELSE Stored(r.ptr, c, n)
        /\ out' = out

\* Variant: every non-zero byte decodes as true.
UnpackBoolNonZero(n) ==
    LET bytes == sizeofBool(n)
        r == getPointerAndAdvanceCursor(d_buffer_index, d_current_size, bytes)
    IN  /\ Advance(r, bytes)
        /\ d_buffer' = d_buffer
        /\ IF r.error THEN out' = out
           ELSE \E junk \in (IF InBuffer(r.ptr, bytes) THEN {0} ELSE JunkBytes) :
                    out' = [i \in 1 .. n |-> Loaded(r.ptr, n, junk)[i] # 0]

unpack_bool(n) ==
    LET bytes == sizeofBool(n)
        r == getPointerAndAdvanceCursor(d_buffer_index, d_current_size, bytes)
    IN  /\ Advance(r, bytes)
        /\ d_buffer' = d_buffer
        /\ IF r.error THEN out' = out
           ELSE \E junk \in (IF InBuffer(r.ptr, bytes) THEN {0} ELSE JunkBytes) :
                    out' = [i \in 1 .. n |-> Loaded(r.ptr, n, junk)[i] = 1]

pack_char(data, n) == __pack(data, sizeofChar(n))
unpack_char(n) == __unpack(sizeofChar(n))

pack_dcomplex(data, n) == __pack(data, sizeofDoubleComplex(n))
unpack_dcomplex(n) == __unpack(sizeofDoubleComplex(n))

pack_double(data, n) == __pack(data, sizeofDouble(n))
unpack_double(n) == __unpack(sizeofDouble(n))

pack_float(data, n) == __pack(data, sizeofFloat(n))
unpack_float(n) == __unpack(sizeofFloat(n))

\* Variant: the int entry point sizes its span with the char size.
PackIntCharSized(data, n) == __pack(data, sizeofChar(n))

pack_int(data, n) == __pack(data, sizeofInt(n))
unpack_int(n) == __unpack(sizeofInt(n))

\* Overload resolution: the entry point the compiler selects for a kind.
pack(K, data, n) ==
    CASE K = "bool" -> pack_bool(data, n)
      [] K = "char" -> pack_char(data, n)
      [] K = "dcomplex" -> pack_dcomplex(data, n)
      [] K = "double" -> pack_double(data, n)
      [] K = "float" -> pack_float(data, n)
      [] K = "int" -> pack_int(data, n)

unpack(K, n) ==
    CASE K = "bool" -> unpack_bool(n)
      [] K = "char" -> unpack_char(n)
      [] K = "dcomplex" -> unpack_dcomplex(n)
      [] K = "double" -> unpack_double(n)
      [] K = "float" -> unpack_float(n)
      [] K = "int" -> unpack_int(n)

----------------------------------------------------------------------------
(* The stream after construction, and the calls a caller makes. *)

\* FixedSizedStream(bytes): an empty, zero-filled buffer of `bytes` bytes.
StreamInit ==
    /\ d_buffer_size = BufferSize
    /\ d_current_size = 0
    /\ d_buffer_index = 0
    /\ d_buffer = [o \in 0 .. BufferSize - 1 |-> 0]
    /\ status = "ok"
    /\ out = <<>>
    /\ touched = {}

NoCall == [op |-> "none", kind |-> "none", n |-> 0, arg |-> 0]
NoHist == [cursor |-> 0, end |-> 0, pack_end |-> 0, unpack_end |-> 0, seek_ok |-> TRUE]

\* History kept beside a call: the cursor it leaves, the end offset it reaches.
Record(c) ==
    /\ call' = c
    /\ nops' = nops + 1
    /\ hist' = [cursor |-> Max(hist.cursor, d_buffer_index'),
                end |-> IF c.op \in {"pack", "unpack"}
                        THEN Max(hist.end, d_buffer_index') ELSE hist.end,
                pack_end |-> IF c.op = "pack"
                             THEN Max(hist.pack_end, d_buffer_index') ELSE hist.pack_end,
                unpack_end |-> IF c.op = "unpack"
                               THEN Max(hist.unpack_end, d_buffer_index') ELSE hist.unpack_end,
                seek_ok |-> hist.seek_ok /\ (c.op = "setCurrentIndex" =>
                                d_buffer_index' \in 0 .. d_buffer_size)]

\* A call is made only while the process lives and its behaviour is defined.
Alive == status = "ok"

DoPack(K, n, data) ==
    /\ Alive
    /\ pack(K, data, n)
    /\ Record([op |-> "pack", kind |-> K, n |-> n, arg |-> 0])

DoUnpack(K, n) ==
    /\ Alive
    /\ unpack(K, n)
    /\ Record([op |-> "unpack", kind |-> K, n |-> n, arg |-> 0])

DoSetCurrentIndex(i) ==
    /\ Alive
    /\ setCurrentIndex(i)
    /\ Record([op |-> "setCurrentIndex", kind |-> "none", n |-> 0, arg |-> i])

DoResetIndex ==
    /\ Alive
    /\ resetIndex
    /\ Record([op |-> "resetIndex", kind |-> "none", n |-> 0, arg |-> 0])

Indices == (0 - IndexSlack) .. (BufferSize + IndexSlack)

\* Any one call, with any of the inputs.
AnyCall ==
    \/ \E K \in Kinds, n \in 1 .. MaxN : \E data \in InputArrays(K, n) : DoPack(K, n, data)
    \/ \E K \in Kinds, n \in 1 .. MaxN : DoUnpack(K, n)
    \/ \E i \in Indices : DoSetCurrentIndex(i)
    \/ DoResetIndex

----------------------------------------------------------------------------
(* General specification: any MaxOps calls on a fresh stream. *)

Init ==
    /\ StreamInit
    /\ call = NoCall
    /\ hist = NoHist
    /\ nops = 0
    /\ pc = "free"
    /\ log = <<>>
    /\ got = <<>>

Pack ==
    /\ nops < MaxOps
    /\ \E K \in Kinds, n \in 1 .. MaxN : \E data \in InputArrays(K, n) : DoPack(K, n, data)
    /\ UNCHANGED driver

Unpack ==
    /\ nops < MaxOps
    /\ \E K \in Kinds, n \in 1 .. MaxN : DoUnpack(K, n)
    /\ UNCHANGED driver

SetCurrentIndex ==
    /\ nops < MaxOps
    /\ \E i \in Indices : DoSetCurrentIndex(i)
    /\ UNCHANGED driver

ResetIndex ==
    /\ nops < MaxOps
    /\ DoResetIndex
    /\ UNCHANGED driver

Next == Pack \/ Unpack \/ SetCurrentIndex \/ ResetIndex

Spec == Init /\ [][Next]_vars

----------------------------------------------------------------------------
(* Properties of the general specification. *)

\* Packed width of one element, as the encoding table states it.
PackedWidth(K) ==
    CASE K = "bool" -> 1
      [] K = "char" -> 1
      [] K = "int" -> 4
      [] K = "float" -> 4
      [] K = "double" -> 8
      [] K = "dcomplex" -> 16
      [] OTHER -> 0

PackOrUnpack == {"pack", "unpack"}

\* The step is a pack or unpack call (call' describes it).
DataCall == nops' = nops + 1 /\ call'.op \in PackOrUnpack

\* C2: a pack or unpack whose byte width exceeds capacity - cursor raises the
\* overrun error in that call, whatever calls came before.
C2_OverrunAlwaysRaised ==
    [][(DataCall /\ call'.n * PackedWidth(call'.kind) > d_buffer_size - d_buffer_index)
         => status' = "overrun"]_vars

\* C2 witness: an overrun raised by the third call of a run, by a span that
\* starts inside the buffer.
C2_Witness ==
    /\ status = "overrun"
    /\ call.op \in PackOrUnpack
    /\ nops = 3
    /\ d_buffer_index - call.n * PackedWidth(call.kind) \in 1 .. d_buffer_size - 1

\* C3: every byte a pack writes or an unpack reads lies at an offset in
\* [0, capacity).
C3_AccessInsideBuffer == touched \subseteq 0 .. d_buffer_size - 1

\* C4 (as claimed): in every state in which no overrun was raised,
\* 0 <= cursor <= capacity.
C4_CursorAlwaysInRange ==
    status # "overrun" => d_buffer_index \in 0 .. d_buffer_size

\* C4 (amended): a pack or unpack that does not raise the overrun error leaves
\* cursor <= capacity, and while every setCurrentIndex argument has been in
\* [0, capacity] a live stream has 0 <= cursor <= capacity.
C4_CursorInRangeAfterDataCalls ==
    /\ (call.op \in PackOrUnpack /\ status # "overrun") => d_buffer_index <= d_buffer_size
    /\ (hist.seek_ok /\ status = "ok") => d_buffer_index \in 0 .. d_buffer_size

\* C4 witness: a pack or unpack that ended exactly at the capacity, after a
\* setCurrentIndex inside the range.
C4_Witness ==
    /\ status = "ok"
    /\ hist.seek_ok
    /\ call.op \in PackOrUnpack
    /\ d_buffer_index = d_buffer_size
    /\ call.n * PackedWidth(call.kind) < d_buffer_size
    /\ nops >= 2

\* C5 (as claimed): getCurrentSize() equals the largest value the cursor has
\* held, values set by setCurrentIndex included.
C5_SizeIsLargestCursor == getCurrentSize = hist.cursor

\* C5 (amended): getCurrentSize() equals the largest value the cursor has held
\* at the end of a pack or unpack call, whatever rewinds came between; a value
\* set by setCurrentIndex alone does not count.
C5_SizeIsLargestAdvancedCursor == getCurrentSize = hist.end

\* C5 witness: the cursor was moved above the mark by setCurrentIndex and
\* rewound below it, after data had been packed or unpacked.
C5_Witness ==
    /\ status = "ok"
    /\ hist.end > 0
    /\ hist.cursor > hist.end
    /\ d_buffer_index < getCurrentSize

\* C6: getCurrentSize() never decreases across a call.
C6_SizeNeverDecreases == [][d_current_size' >= d_current_size]_vars

\* C6 witness: a pack or unpack that ended below the mark after a rewind.
C6_Witness ==
    /\ status = "ok"
    /\ call.op \in PackOrUnpack
    /\ d_buffer_index < getCurrentSize

\* C7: a call that raises the overrun error leaves the buffer and the caller's
\* output as they were.
C7_NoPartialCopyOnOverrun ==
    [][(status = "ok" /\ status' = "overrun") => (d_buffer' = d_buffer /\ out' = out)]_vars

\* C7 witness: an overrun by an array call whose first element would have fitted.
C7_Witness ==
    /\ status = "overrun"
    /\ call.n >= 2
    /\ d_buffer_index - call.n * PackedWidth(call.kind) >= 0
    /\ d_buffer_index - (call.n - 1) * PackedWidth(call.kind) <= d_buffer_size

\* C8: a successful pack or unpack of n elements of kind K advances the cursor
\* by n * width(K), and pack raises the mark to the new cursor exactly when the
\* new cursor exceeds it.
C8_CursorAdvance ==
    [][(DataCall /\ status' = "ok") =>
          /\ d_buffer_index' = d_buffer_index + call'.n * PackedWidth(call'.kind)
          /\ call'.op = "pack" =>
                d_current_size' = IF d_buffer_index' > d_current_size
                                  THEN d_buffer_index' ELSE d_current_size]_vars

\* C8 witness: a successful pack of a dcomplex (16 bytes) that raised the mark.
C8_Witness ==
    /\ status = "ok"
    /\ call = [op |-> "pack", kind |-> "dcomplex", n |-> 1, arg |-> 0]
    /\ d_buffer_index = 16
    /\ getCurrentSize = 16

\* C9 (as claimed): getCurrentSize() is the largest end offset reached by any
\* pack call since construction.
C9_SizeIsLargestPackEnd == getCurrentSize = hist.pack_end

\* C9 (amended): getCurrentSize() is the largest end offset reached by any pack
\* or unpack call since construction, so it is at least the largest end offset
\* of a pack.
C9_SizeIsLargestPackOrUnpackEnd ==
    /\ getCurrentSize = Max(hist.pack_end, hist.unpack_end)
    /\ getCurrentSize >= hist.pack_end

\* C9 witness: after a rewind the size exceeds the cursor, and an unpack has
\* carried it beyond everything packed.
C9_Witness ==
    /\ status = "ok"
    /\ hist.pack_end > 0
    /\ hist.unpack_end > hist.pack_end
    /\ getCurrentSize > getCurrentIndex


\* The step is a call (call' describes it).
Step == nops' = nops + 1

\* Bytes the step's pack or unpack asks for, by the encoding table.
Span == call'.n * PackedWidth(call'.kind)

\* C12: a pack or unpack that starts inside the buffer and ends exactly at the
\* capacity succeeds and leaves cursor = capacity; a pack or unpack that follows
\* it with the cursor still at the capacity raises the overrun error.
C12_ExactFitBoundary ==
    [][/\ (DataCall /\ d_buffer_index >= 0 /\ d_buffer_index + Span = d_buffer_size)
            => (status' = "ok" /\ d_buffer_index' = d_buffer_size)
       /\ (DataCall /\ call.op \in PackOrUnpack /\ d_buffer_index = d_buffer_size)
            => status' = "overrun"]_vars

\* C12 witness: a pack ended exactly at the capacity and the unpack that
\* followed it, with no rewind between, raised the overrun error.
C12_Witness ==
    /\ status = "overrun"
    /\ nops = 2
    /\ call.op = "unpack"
    /\ hist.pack_end = d_buffer_size
    /\ d_buffer_index = d_buffer_size + call.n * PackedWidth(call.kind)

\* C15: setCurrentIndex and resetIndex never raise, for any argument; a pack
\* or unpack with cursor + bytes <= capacity never raises; the overrun error
\* is raised only by a pack or unpack with cursor + bytes > capacity.
C15_OnlyOverrunFails ==
    [][/\ (Step /\ call'.op \in {"setCurrentIndex", "resetIndex"}) => status' = "ok"
       /\ (DataCall /\ d_buffer_index + Span <= d_buffer_size) => status' # "overrun"
       /\ (status' = "overrun")
            => (DataCall /\ d_buffer_index + Span > d_buffer_size)]_vars

\* C15 witness: setCurrentIndex took an index above the capacity, and one
\* below 0 before it, without raising.
C15_Witness ==
    /\ status = "ok"
    /\ call.op = "setCurrentIndex"
    /\ call.arg > d_buffer_size
    /\ ~hist.seek_ok
    /\ nops = 3
    /\ hist.end > 0

\* C16: resetIndex() leaves the state setCurrentIndex(0) leaves: the cursor is
\* 0, and the mark, the capacity, every buffer byte and the status are unchanged.
C16_ResetIsSeekToZero ==
    [][(Step /\ call'.op = "resetIndex") =>
          /\ setCurrentIndex(0)
          /\ getCurrentIndex' = 0
          /\ getCurrentSize' = getCurrentSize
          /\ d_buffer_size' = d_buffer_size
          /\ d_buffer' = d_buffer
          /\ status' = status]_vars

\* C16 witness: a reset of a stream with data in the buffer, the mark above 0
\* and the cursor away from 0.
C16_Witness ==
    /\ call.op = "resetIndex"
    /\ getCurrentIndex = 0
    /\ getCurrentSize > 0
    /\ hist.cursor > getCurrentSize
    /\ \E o \in DOMAIN d_buffer : d_buffer[o] # 0

\* C17: after setCurrentIndex(i), getCurrentIndex() is i, and the mark, the
\* capacity and every buffer byte are what they were before the call.
C17_SeekChangesOnlyCursor ==
    [][(Step /\ call'.op = "setCurrentIndex") =>
          /\ getCurrentIndex' = call'.arg
          /\ getCurrentSize' = getCurrentSize
          /\ d_buffer_size' = d_buffer_size
          /\ d_buffer' = d_buffer]_vars

\* C17 witness: a seek below 0 on a stream with data and the mark above 0.
C17_Witness ==
    /\ call.op = "setCurrentIndex"
    /\ call.arg < 0
    /\ getCurrentIndex = call.arg
    /\ getCurrentSize > 0
    /\ \E o \in DOMAIN d_buffer : d_buffer[o] # 0

\* C18: the capacity and the buffer length are those of construction in every
\* state, and a pack or unpack that ends beyond the capacity has failed.
C18_FixedCapacity ==
    /\ d_buffer_size = BufferSize
    /\ DOMAIN d_buffer = 0 .. BufferSize - 1
    /\ (call.op \in PackOrUnpack /\ d_buffer_index > BufferSize) => status = "overrun"

\* C18 witness: a pack that did not fit, after a pack that did.
C18_Witness ==
    /\ status = "overrun"
    /\ call.op = "pack"
    /\ hist.pack_end = d_buffer_index
    /\ d_buffer_index > d_buffer_size
    /\ \E o \in DOMAIN d_buffer : d_buffer[o] # 0

\* C20: every pack and unpack call advances the cursor once, by the full span
\* of the call, and touches buffer bytes only if that span passed the capacity
\* test: a call that raises touches nothing, a call that does not raise touches
\* the span's bytes and no others, all of them below the capacity.
C20_SingleChokePoint ==
    [][DataCall =>
          /\ d_buffer_index' = d_buffer_index + Span
          /\ status' = "overrun" => (touched' = {} /\ d_buffer' = d_buffer /\ out' = out)
          /\ status' # "overrun" =>
                /\ touched' = d_buffer_index .. d_buffer_index + Span - 1
                /\ d_buffer_index + Span <= d_buffer_size]_vars

\* C20 witness: a two-element bool array that overran by its last element only.
C20_Witness ==
    /\ status = "overrun"
    /\ call.kind = "bool"
    /\ call.n = 2
    /\ d_buffer_index = d_buffer_size + 1
    /\ touched = {}

\* C22: while no overrun has been raised the mark is at most the capacity, and
\* no pack or unpack has returned with the cursor beyond the capacity: the
\* capacity test, made only when the cursor passes the mark, misses no overrun.
C22_MarkWithinCapacity ==
    /\ (status # "overrun" => getCurrentSize <= d_buffer_size)
    /\ (status # "overrun" /\ call.op \in PackOrUnpack => getCurrentIndex <= d_buffer_size)

\* C22 witness: the third call of a run is an unpack below a mark that an
\* earlier pack raised to the capacity; the capacity test is skipped.
C22_Witness ==
    /\ status = "ok"
    /\ nops = 3
    /\ call.op = "unpack"
    /\ getCurrentSize = d_buffer_size
    /\ hist.pack_end = d_buffer_size
    /\ getCurrentIndex < d_buffer_size

\* C23: after a pack or unpack that returned, getCurrentSize() >= cursor; the
\* cursor is above the mark only after a setCurrentIndex call.
C23_MarkCoversCursor ==
    /\ (status # "overrun" /\ call.op \in PackOrUnpack => getCurrentSize >= getCurrentIndex)
    /\ (getCurrentIndex > getCurrentSize => call.op = "setCurrentIndex")

\* C23 witness: a pack raised the mark, and a later setCurrentIndex left the
\* cursor above it.
C23_Witness ==
    /\ status = "ok"
    /\ call.op = "setCurrentIndex"
    /\ hist.pack_end > 0
    /\ getCurrentSize = hist.pack_end
    /\ getCurrentIndex > getCurrentSize

\* C25: unpack of n bools yields true for element k exactly when the byte at
\* (cursor before the call) + k - 1 is 1, and false for every other byte value.
C25_BoolDecoding ==
    (status = "ok" /\ call.op = "unpack" /\ call.kind = "bool") =>
        /\ Len(out) = call.n
        /\ \A k \in 1 .. call.n :
              out[k] = (d_buffer[getCurrentIndex - call.n + k - 1] = 1)

\* C25 witness: the bytes 65 and 255 of a char pack, unpacked as two bools,
\* are both false.
C25_Witness ==
    /\ status = "ok"
    /\ call.op = "unpack"
    /\ call.kind = "bool"
    /\ call.n = 2
    /\ getCurrentIndex = 2
    /\ d_buffer[0] = 65
    /\ d_buffer[1] = 255
    /\ out = <<FALSE, FALSE>>

----------------------------------------------------------------------------
(* Round trip: a caller that has used the stream for one arbitrary call     *)
(* rewinds, packs up to MaxSeq arrays that fit in the buffer together,      *)
(* calls resetIndex() and unpacks them with the same kinds and counts.      *)

\* Bytes the logged arrays take, by the encoding table.
RECURSIVE LogBytes(_)
LogBytes(l) ==
    IF l = <<>> THEN 0 ELSE Head(l).n * PackedWidth(Head(l).kind) + LogBytes(Tail(l))

RTUse ==
    /\ pc = "free"
    /\ AnyCall
    /\ pc' = "used"
    /\ UNCHANGED <<log, got>>

RTRewind ==
    /\ pc = "used"
    /\ DoResetIndex
    /\ pc' = "packing"
    /\ UNCHANGED <<log, got>>

RTPack ==
    /\ pc = "packing"
    /\ Len(log) < MaxSeq
    /\ \E K \in Kinds, n \in 1 .. MaxN : \E data \in InputArrays(K, n) :
          /\ LogBytes(log) + n * PackedWidth(K) <= d_buffer_size
          /\ DoPack(K, n, data)
          /\ log' = Append(log, [kind |-> K, n |-> n, data |-> data])
    /\ UNCHANGED <<pc, got>>

RTReset ==
    /\ pc = "packing"
    /\ log # <<>>
    /\ DoResetIndex
    /\ pc' = "unpacking"
    /\ UNCHANGED <<log, got>>

RTUnpack ==
    /\ pc = "unpacking"
    /\ Len(got) < Len(log)
    /\ DoUnpack(log[Len(got) + 1].kind, log[Len(got) + 1].n)
    /\ got' = Append(got, out')
    /\ UNCHANGED <<pc, log>>

NextRoundTrip == RTUse \/ RTRewind \/ RTPack \/ RTReset \/ RTUnpack

SpecRoundTrip == Init /\ [][NextRoundTrip]_vars

\* C1: after resetIndex(), unpacking with the kinds and counts of the packs, in
\* their order, returns the arrays that were packed, and no call fails.
C1_RoundTrip ==
    pc \in {"packing", "unpacking"} =>
        /\ status = "ok"
        /\ \A k \in 1 .. Len(got) : got[k] = log[k].data

\* C1 witness: a finished round trip of two arrays of different kinds, one of
\* them of two elements, on a stream whose buffer had been written before.
C1_Witness ==
    /\ pc = "unpacking"
    /\ Len(log) = 2
    /\ Len(got) = 2
    /\ log[1].kind # log[2].kind
    /\ log[1].n = 2
    /\ hist.pack_end = 16
    /\ LogBytes(log) < 16

\* The canonical bytes of a bool array: 0x01 for true, 0x00 for false.
BoolBytes(data) == [k \in 1 .. Len(data) |-> IF data[k] THEN 1 ELSE 0]

\* C14: a pack of an n-element bool array changes exactly the n bytes at the
\* cursor, to 0x01 where the element is true and 0x00 where it is false, and
\* the unpack of those bytes as n bools returns the array.
C14_BoolCanonicalEncoding ==
    [][/\ (pc' = "packing" /\ Len(log') = Len(log) + 1 /\ log'[Len(log')].kind = "bool") =>
            LET e == log'[Len(log')]
            IN  /\ d_buffer_index' = d_buffer_index + e.n
                /\ \A o \in DOMAIN d_buffer :
                      d_buffer'[o] = IF o >= d_buffer_index /\ o < d_buffer_index + e.n
                                     THEN BoolBytes(e.data)[o - d_buffer_index + 1]
                                     ELSE d_buffer[o]
       /\ (pc' = "unpacking" /\ Len(got') = Len(got) + 1 /\ log[Len(got')].kind = "bool") =>
            LET e == log[Len(got')]
            IN  /\ \A k \in 1 .. e.n : d_buffer[d_buffer_index + k - 1] = BoolBytes(e.data)[k]
                /\ out' = e.data
                /\ got'[Len(got')] = e.data]_vars

\* C14 witness: the array [true, false] packed behind another array over
\* non-zero bytes of an earlier call, found as 0x01 0x00 and unpacked again.
C14_Witness ==
    /\ pc = "unpacking"
    /\ Len(log) = 2
    /\ Len(got) = 2
    /\ log[2].kind = "bool"
    /\ log[2].n = 2
    /\ log[2].data = <<TRUE, FALSE>>
    /\ LogBytes(log) = 4
    /\ d_buffer[2] = 1
    /\ d_buffer[3] = 0
    /\ d_buffer[4] > 1
    /\ got[2] = <<TRUE, FALSE>>

----------------------------------------------------------------------------
(* Flat layout: a caller packs up to MaxSeq arrays, which fit in the buffer *)
(* together, into a fresh stream.                                           *)

LayoutPack ==
    /\ pc = "free"
    /\ Len(log) < MaxSeq
    /\ \E K \in Kinds, n \in 1 .. MaxN : \E data \in InputArrays(K, n) :
          /\ LogBytes(log) + n * PackedWidth(K) <= d_buffer_size
          /\ DoPack(K, n, data)
          /\ log' = Append(log, [kind |-> K, n |-> n, data |-> data])
    /\ UNCHANGED <<pc, got>>

NextLayout == LayoutPack

SpecLayout == Init /\ [][NextLayout]_vars

\* The encodings of the logged arrays, one after the other.
RECURSIVE FlatBytes(_)
FlatBytes(l) ==
    IF l = <<>> THEN <<>>
    ELSE (IF Head(l).kind = "bool" THEN BoolBytes(Head(l).data) ELSE Head(l).data)
         \o FlatBytes(Tail(l))

\* C13: after packing arrays of any kinds into a fresh stream, cursor and
\* getCurrentSize() are the sum of their packed widths, and bytes [0, size) are
\* their encodings one after the other in call order, with nothing in between;
\* the bytes from size on are untouched.
C13_FlatLayout ==
    /\ status = "ok"
    /\ getCurrentIndex = LogBytes(log)
    /\ getCurrentSize = LogBytes(log)
    /\ Len(FlatBytes(log)) = LogBytes(log)
    /\ \A o \in DOMAIN d_buffer :
          d_buffer[o] = IF o < LogBytes(log) THEN FlatBytes(log)[o + 1] ELSE 0

\* C13 witness: int 42 then double 3.14 in a fresh stream, cursor = size = 12.
C13_Witness ==
    /\ Len(log) = 2
    /\ log[1].kind = "int"
    /\ log[1].n = 1
    /\ log[1].data = <<42, 0, 0, 0>>
    /\ log[2].kind = "double"
    /\ log[2].n = 1
    /\ log[2].data = <<31, 133, 235, 81, 184, 30, 9, 64>>
    /\ getCurrentIndex = 12
    /\ getCurrentSize = 12
    /\ d_buffer[0] = 42
    /\ d_buffer[4] = 31
    /\ d_buffer[11] = 64

----------------------------------------------------------------------------
(* Cursor addressing: after one arbitrary call, the caller seeks to an       *)
(* index i with 0 <= i and i + width <= capacity, packs one value, seeks to  *)
(* i again and unpacks one value of the same kind.                           *)

AddrUse ==
    /\ pc = "free"
    /\ AnyCall
    /\ pc' = "used"
    /\ UNCHANGED <<log, got>>

AddrSeek ==
    /\ pc = "used"
    /\ \E K \in Kinds : \E v \in InputArrays(K, 1) :
       \E i \in 0 .. d_buffer_size - PackedWidth(K) :
          /\ DoSetCurrentIndex(i)
          /\ log' = <<[kind |-> K, n |-> 1, data |-> v, index |-> i]>>
    /\ pc' = "seeked"
    /\ got' = got

AddrPack ==
    /\ pc = "seeked"
    /\ DoPack(log[1].kind, 1, log[1].data)
    /\ pc' = "packed"
    /\ UNCHANGED <<log, got>>

AddrSeekBack ==
    /\ pc = "packed"
    /\ DoSetCurrentIndex(log[1].index)
    /\ pc' = "seeked back"
    /\ UNCHANGED <<log, got>>

AddrUnpack ==
    /\ pc = "seeked back"
    /\ DoUnpack(log[1].kind, 1)
    /\ pc' = "unpacked"
    /\ got' = <<out'>>
    /\ log' = log

NextAddressing == AddrUse \/ AddrSeek \/ AddrPack \/ AddrSeekBack \/ AddrUnpack

SpecAddressing == Init /\ [][NextAddressing]_vars

\* C10: setCurrentIndex(i); pack(v); setCurrentIndex(i); unpack(out) leaves
\* out equal to v, for every kind, every i with 0 <= i and i + width <= capacity,
\* whatever the buffer, the cursor and the mark were before.
C10_CursorAddressing ==
    /\ pc \in {"seeked", "packed", "seeked back", "unpacked"} => status = "ok"
    /\ pc = "unpacked" => got = <<log[1].data>>

\* C10 witness: a value recovered from the middle of a buffer that had been
\* filled to capacity before, with the high-water mark at the capacity.
C10_Witness ==
    /\ pc = "unpacked"
    /\ log[1].index \in 1 .. d_buffer_size - 2
    /\ log[1].kind \in {"int", "bool"}
    /\ getCurrentSize = d_buffer_size
    /\ got = <<log[1].data>>

----------------------------------------------------------------------------
(* Overwrite in place: after one arbitrary call, the caller seeks to an      *)
(* index i with 0 <= i and i + width <= capacity, packs a value, rewinds to  *)
(* i, packs another value of the same kind, rewinds and unpacks.             *)

OvUse ==
    /\ pc = "free"
    /\ AnyCall
    /\ pc' = "used"
    /\ UNCHANGED <<log, got>>

OvSeek ==
    /\ pc = "used"
    /\ \E K \in Kinds : \E v1 \in InputArrays(K, 1), v2 \in InputArrays(K, 1) :
       \E i \in 0 .. d_buffer_size - PackedWidth(K) :
          /\ DoSetCurrentIndex(i)
          /\ log' = <<[kind |-> K, n |-> 1, first |-> v1, data |-> v2, index |-> i]>>
    /\ pc' = "seeked"
    /\ got' = got

OvPackFirst ==
    /\ pc = "seeked"
    /\ DoPack(log[1].kind, 1, log[1].first)
    /\ pc' = "first packed"
    /\ got' = <<[mark |-> d_current_size', buffer |-> d_buffer']>>
    /\ log' = log

OvRewind ==
    /\ pc = "first packed"
    /\ DoSetCurrentIndex(log[1].index)
    /\ pc' = "rewound"
    /\ UNCHANGED <<log, got>>

OvPackSecond ==
    /\ pc = "rewound"
    /\ DoPack(log[1].kind, 1, log[1].data)
    /\ pc' = "second packed"
    /\ UNCHANGED <<log, got>>

OvSeekBack ==
    /\ pc = "second packed"
    /\ DoSetCurrentIndex(log[1].index)
    /\ pc' = "seeked back"
    /\ UNCHANGED <<log, got>>

OvUnpack ==
    /\ pc = "seeked back"
    /\ DoUnpack(log[1].kind, 1)
    /\ pc' = "unpacked"
    /\ got' = Append(got, out')
    /\ log' = log

NextOverwrite ==
    OvUse \/ OvSeek \/ OvPackFirst \/ OvRewind \/ OvPackSecond \/ OvSeekBack \/ OvUnpack

SpecOverwrite == Init /\ [][NextOverwrite]_vars

\* C11: after the second pack at offset i the high-water mark is what it was
\* after the first, every byte outside [i, i + width) is what it was after the
\* first, and an unpack at offset i returns the second value.
C11_OverwriteInPlace ==
    /\ pc \in {"second packed", "seeked back", "unpacked"} =>
          /\ status = "ok"
          /\ getCurrentSize = got[1].mark
          /\ \A o \in DOMAIN d_buffer :
                (o < log[1].index \/ o >= log[1].index + PackedWidth(log[1].kind))
                    => d_buffer[o] = got[1].buffer[o]
    /\ pc = "unpacked" => got[2] = log[1].data

\* C11 witness: a value overwritten by a different one in the middle of a
\* buffer that an earlier call had filled with non-zero bytes to capacity.
C11_Witness ==
    /\ pc = "unpacked"
    /\ log[1].first # log[1].data
    /\ got[2] = log[1].data
    /\ log[1].index \in 1 .. d_buffer_size - 2
    /\ got[1].mark = d_buffer_size
    /\ d_buffer[0] # 0

----------------------------------------------------------------------------
(* Two execution contexts: each calls pack once on the same fresh stream.   *)
(* The stream takes no lock, so the reads and writes of a call are separate *)
(* steps, which interleave with the other context's unless the caller lets  *)
(* one call return before the next begins.  pc, log and got are here per    *)
(* context: the position in the call, the call's locals, and the caller's   *)
(* record of how the calls were issued.                                     *)

Contexts == {"a", "b"}

Other(c) == CHOOSE d \in Contexts : d # c

\* The byte count a pack of n elements of kind K asks for.
sizeofKind(K, n) ==
    CASE K = "bool" -> sizeofBool(n)
      [] K = "char" -> sizeofChar(n)
      [] K = "dcomplex" -> sizeofDoubleComplex(n)
      [] K = "double" -> sizeofDouble(n)
      [] K = "float" -> sizeofFloat(n)
      [] K = "int" -> sizeofInt(n)

\* The bytes a pack stores: 1/0 per element for bool, else the array's bytes.
SourceBytes(K, data) ==
    IF K = "bool" THEN [i \in 1 .. Len(data) |-> IF data[i] THEN 1 ELSE 0] ELSE data

NoLocals == [kind |-> "none", n |-> 0, src |-> <<>>, bytes |-> 0,
             ptr |-> 0, reg |-> 0, copied |-> 0]

InitConcurrent ==
    /\ StreamInit
    /\ call = NoCall
    /\ hist = NoHist
    /\ nops = 0
    /\ pc = [c \in Contexts |-> "idle"]
    /\ log = [c \in Contexts |-> NoLocals]
    /\ got = [raced |-> FALSE, order |-> <<>>]

InCall(c) == pc[c] \notin {"idle", "done"}

Quiet == UNCHANGED <<d_buffer_size, out, touched, call, hist, nops>>

\* Context c enters pack(data, n); the caller notes whether the other context
\* is inside a call at that moment.
CallPack(c) ==
    /\ status = "ok"
    /\ pc[c] = "idle"
    /\ \E K \in Kinds, n \in 1 .. MaxN : \E data \in InputArrays(K, n) :
          /\ sizeofKind(K, n) <= MaxRaceBytes
          /\ log' = [log EXCEPT ![c] = [kind |-> K, n |-> n, src |-> SourceBytes(K, data),
                                        bytes |-> sizeofKind(K, n),
                                        ptr |-> 0, reg |-> 0, copied |-> 0]]
    /\ pc' = [pc EXCEPT ![c] = "pointer"]
    /\ got' = [raced |-> got.raced \/ InCall(Other(c)), order |-> Append(got.order, c)]
    /\ UNCHANGED <<d_buffer_index, d_current_size, d_buffer, status>>
    /\ Quiet

\* void* ptr = &d_buffer[d_buffer_index];
TakePointer(c) ==
    /\ status = "ok"
    /\ pc[c] = "pointer"
    /\ log' = [log EXCEPT ![c].ptr = d_buffer_index]
    /\ pc' = [pc EXCEPT ![c] = "load"]
    /\ UNCHANGED <<d_buffer_index, d_current_size, d_buffer, status, got>>
    /\ Quiet

\* d_buffer_index += bytes; the read.
LoadCursor(c) ==
    /\ status = "ok"
    /\ pc[c] = "load"
    /\ log' = [log EXCEPT ![c].reg = d_buffer_index]
    /\ pc' = [pc EXCEPT ![c] = "store"]
    /\ UNCHANGED <<d_buffer_index, d_current_size, d_buffer, status, got>>
    /\ Quiet

\* Variant: the store writes the byte count alone.
StoreCursorFromZero(c) ==
    /\ status = "ok"
    /\ pc[c] = "store"
    /\ d_buffer_index' = log[c].bytes
    /\ pc' = [pc EXCEPT ![c] = "test"]
    /\ UNCHANGED <<d_current_size, d_buffer, status, log, got>>
    /\ Quiet

\* d_buffer_index += bytes; the write.
StoreCursor(c) ==
    /\ status = "ok"
    /\ pc[c] = "store"
    /\ d_buffer_index' = log[c].reg + log[c].bytes
    /\ pc' = [pc EXCEPT ![c] = "test"]
    /\ UNCHANGED <<d_current_size, d_buffer, status, log, got>>
    /\ Quiet

\* if (d_buffer_index > d_current_size); the cursor is kept for the tests below.
TestMark(c) ==
    /\ status = "ok"
    /\ pc[c] = "test"
    /\ log' = [log EXCEPT ![c].reg = d_buffer_index]
    /\ pc' = [pc EXCEPT ![c] = IF d_buffer_index > d_current_size THEN "mark" ELSE "copy"]
    /\ UNCHANGED <<d_buffer_index, d_current_size, d_buffer, status, got>>
    /\ Quiet

\* d_current_size = d_buffer_index; the cursor as kept or as read again.
StoreMark(c) ==
    /\ status = "ok"
    /\ pc[c] = "mark"
    /\ \E v \in {log[c].reg, d_buffer_index} : d_current_size' = v
    /\ pc' = [pc EXCEPT ![c] = "limit"]
    /\ UNCHANGED <<d_buffer_index, d_buffer, status, log, got>>
    /\ Quiet

\* if (d_buffer_index > d_buffer_size) TBOX_ERROR(...); the error ends the program.
TestLimit(c) ==
    /\ status = "ok"
    /\ pc[c] = "limit"
    /\ \E v \in {log[c].reg, d_buffer_index} :
          /\ status' = IF v > d_buffer_size THEN "overrun" ELSE "ok"
          /\ pc' = [pc EXCEPT ![c] = IF v > d_buffer_size THEN "failed" ELSE "copy"]
    /\ UNCHANGED <<d_buffer_index, d_current_size, d_buffer, log, got>>
    /\ Quiet

\* One byte of the copy to ptr; after the last one the call returns.
CopyByte(c) ==
    /\ status = "ok"
    /\ pc[c] = "copy"
    /\ LET l == log[c]
           o == l.ptr + l.copied
       IN  /\ status' = IF o \in DOMAIN d_buffer THEN "ok" ELSE "undefined"
           /\ d_buffer' = IF o \in DOMAIN d_buffer
                          THEN [d_buffer EXCEPT ![o] = l.src[l.copied + 1]]
                          ELSE d_buffer
           /\ log' = [log EXCEPT ![c].copied = l.copied + 1]
           /\ pc' = [pc EXCEPT ![c] = IF l.copied + 1 = l.bytes THEN "done" ELSE "copy"]
    /\ UNCHANGED <<d_buffer_index, d_current_size, got>>
    /\ Quiet

NextConcurrent ==
    \E c \in Contexts :
        \/ CallPack(c)
        \/ TakePointer(c)
        \/ LoadCursor(c)
        \/ StoreCursor(c)
        \/ TestMark(c)
        \/ StoreMark(c)
        \/ TestLimit(c)
        \/ CopyByte(c)

SpecConcurrent == InitConcurrent /\ [][NextConcurrent]_vars

BothReturned == \A c \in Contexts : pc[c] = "done"

Region(c) == log[c].ptr .. log[c].ptr + log[c].bytes - 1

BytesPacked == log["a"].bytes + log["b"].bytes

\* C19: nothing in the stream keeps two contexts' calls apart.  When each pack
\* returned before the next began, the second pack's region starts where the
\* first one's ends, the regions are disjoint and hold the packed bytes, and the
\* final cursor and mark are the sum of the bytes packed.  When the calls
\* overlapped in time, every region starts at 0 or at the other call's length and
\* the final cursor is one call's length or the sum: a region can be handed out
\* twice and an advance can be lost.
C19_SerializedOrRaced ==
    BothReturned =>
        IF got.raced
        THEN /\ \A c \in Contexts : log[c].ptr \in {0, log[Other(c)].bytes}
             /\ d_buffer_index \in {log["a"].bytes, log["b"].bytes, BytesPacked}
        ELSE LET first == got.order[1]
                 second == got.order[2]
             IN  /\ status = "ok"
                 /\ log[first].ptr = 0
                 /\ log[second].ptr = log[first].bytes
                 /\ Region("a") \cap Region("b") = {}
                 /\ d_buffer_index = BytesPacked
                 /\ d_current_size = BytesPacked
                 /\ \A c \in Contexts : \A k \in 1 .. log[c].bytes :
                       d_buffer[log[c].ptr + k - 1] = log[c].src[k]

\* C19 witness: two overlapping calls that were handed the same region, with the
\* cursor advanced by only one of them.
C19_Witness ==
    /\ BothReturned
    /\ got.raced
    /\ log["a"].ptr = log["b"].ptr
    /\ Region("a") \cap Region("b") # {}
    /\ d_buffer_index < BytesPacked

\* Two calls, one after the other: disjoint regions, cursor at the sum.
C19_SerializedReached ==
    /\ BothReturned
    /\ ~got.raced
    /\ log["a"].bytes = 4
    /\ log["b"].bytes = 2
    /\ d_buffer_index = 6

\* Overlapping calls handed the same region although no advance was lost.
C19_SameRegionReached ==
    /\ BothReturned
    /\ got.raced
    /\ log["a"].ptr = log["b"].ptr
    /\ d_buffer_index = BytesPacked

\* Overlapping calls that took turns at every shared read and write.
C19_RacedUnharmedReached ==
    /\ BothReturned
    /\ got.raced
    /\ Region("a") \cap Region("b") = {}
    /\ d_buffer_index = BytesPacked

----------------------------------------------------------------------------
(* Single calls with counts from 0: a caller packs one array at the start   *)
(* of a fresh stream, moves the cursor anywhere, makes one pack or unpack   *)
(* call, moves the cursor back to offset 0 or to where that call began, and *)
(* unpacks what was packed or unpacked there.  log holds the first pack,    *)
(* the call, and which of the two is read back; got holds unpacked values.  *)

Counts == 0 .. MaxN

CntFirstPack ==
    /\ pc = "free"
    /\ \E K \in Kinds, n \in Counts : \E data \in InputArrays(K, n) :
          /\ DoPack(K, n, data)
          /\ log' = <<[op |-> "pack", kind |-> K, n |-> n, data |-> data, index |-> 0]>>
    /\ pc' = "used"
    /\ got' = got

CntSeek ==
    /\ pc = "used"
    /\ \E i \in Indices : DoSetCurrentIndex(i)
    /\ pc' = "placed"
    /\ UNCHANGED <<log, got>>

CntPack ==
    /\ pc = "placed"
    /\ \E K \in Kinds, n \in Counts : \E data \in InputArrays(K, n) :
          /\ DoPack(K, n, data)
          /\ log' = Append(log, [op |-> "pack", kind |-> K, n |-> n, data |-> data,
                                 index |-> d_buffer_index])
    /\ pc' = "called"
    /\ got' = got

CntUnpack ==
    /\ pc = "placed"
    /\ \E K \in Kinds, n \in Counts :
          /\ DoUnpack(K, n)
          /\ log' = Append(log, [op |-> "unpack", kind |-> K, n |-> n, data |-> <<>>,
                                 index |-> d_buffer_index])
    /\ pc' = "called"
    /\ got' = <<out'>>

CntBack ==
    /\ pc = "called"
    /\ \/ DoResetIndex /\ log' = Append(log, [which |-> 1])
       \/ DoSetCurrentIndex(log[2].index) /\ log' = Append(log, [which |-> 2])
    /\ pc' = "back"
    /\ got' = got

CntRead ==
    /\ pc = "back"
    /\ DoUnpack(log[log[3].which].kind, log[log[3].which].n)
    /\ pc' = "read"
    /\ got' = Append(got, out')
    /\ log' = log

NextCounts ==
    \/ CntFirstPack
    \/ CntSeek
    \/ CntPack
    \/ CntUnpack
    \/ CntBack
    \/ CntRead

SpecCounts == Init /\ [][NextCounts]_vars

\* The step is an unpack call / a pack call (call' describes it).
UnpackCall == nops' = nops + 1 /\ call'.op = "unpack"
PackCall == nops' = nops + 1 /\ call'.op = "pack"

\* Offset at which the step's pack or unpack ends.
End == d_buffer_index + Span

\* Bytes of the first pack and of the call that followed it.
FirstBytes == log[1].n * PackedWidth(log[1].kind)
CallBytes == log[2].n * PackedWidth(log[2].kind)

\* C21: an unpack moves the mark as a pack does: the mark becomes the call's end
\* offset when that is above the mark (so also when it is the largest cursor
\* seen so far), and is unchanged when the end offset is not above the mark.
C21_UnpackMovesMark ==
    [][/\ UnpackCall =>
            /\ (End >= hist.cursor => d_current_size' = End)
            /\ (End > d_current_size => d_current_size' = End)
            /\ (End <= d_current_size => d_current_size' = d_current_size)
       /\ DataCall => d_current_size' = Max(d_current_size, End)]_vars

\* C21 witness: an unpack beyond the end of what was packed has returned and
\* getCurrentSize() is its end offset.
C21_Witness ==
    /\ pc = "called"
    /\ status = "ok"
    /\ log[2].op = "unpack"
    /\ FirstBytes > 0
    /\ CallBytes > 0
    /\ getCurrentSize = log[2].index + CallBytes
    /\ getCurrentSize > FirstBytes

\* C24: when a pack or unpack raises the overrun error, the cursor is the old
\* cursor + bytes, the mark is that same value, and both are above the capacity.
C24_StateAtOverrun ==
    [][(DataCall /\ status' = "overrun") =>
            /\ d_buffer_index' = End
            /\ d_current_size' = End
            /\ End > d_buffer_size
            /\ d_buffer_index' # d_buffer_index \/ Span = 0
            /\ d_current_size' # d_current_size]_vars

\* C24 witness: a call that began inside the buffer raised the error; cursor
\* and mark are both at its end offset, above the capacity.
C24_Witness ==
    /\ pc = "called"
    /\ status = "overrun"
    /\ log[2].index \in 0 .. d_buffer_size
    /\ getCurrentIndex = log[2].index + CallBytes
    /\ getCurrentSize = getCurrentIndex
    /\ getCurrentIndex > d_buffer_size

\* C26: a successful unpack changes no buffer byte and not the capacity; it
\* moves the cursor to its end offset and the mark to at least that; the same
\* unpack made again from the same offset yields the same values.
C26_UnpackReadOnly ==
    [][/\ (UnpackCall /\ status' = "ok") =>
            /\ d_buffer' = d_buffer
            /\ d_buffer_size' = d_buffer_size
            /\ d_buffer_index' = End
            /\ d_current_size' = Max(d_current_size, End)
       /\ (pc' = "read" /\ status' = "ok" /\ log[3].which = 2 /\ log[2].op = "unpack") =>
            out' = got[1]]_vars

\* C26 witness: two ints unpacked twice from offset 0 with a rewind between,
\* the same both times.
C26_Witness ==
    /\ pc = "read"
    /\ status = "ok"
    /\ log[3].which = 2
    /\ log[2].op = "unpack"
    /\ log[2].kind = "int"
    /\ log[2].n = 2
    /\ log[2].index = 0
    /\ Len(got) = 2
    /\ got[1] = <<42, 0, 0, 0, 254, 255, 255, 255>>
    /\ got[2] = got[1]

\* C27: a successful pack of b bytes at cursor c leaves every byte below c and
\* at or above c + b as it was; an array packed at offset 0 is unpacked
\* unchanged after a pack into a region that does not overlap it.
C27_PackFrame ==
    [][/\ (PackCall /\ status' = "ok") =>
            \A o \in DOMAIN d_buffer :
                (o < d_buffer_index \/ o >= End) => d_buffer'[o] = d_buffer[o]
       /\ (/\ pc' = "read" /\ status' = "ok" /\ log[3].which = 1
           /\ log[2].op = "pack" => (CallBytes = 0 \/ log[2].index >= FirstBytes)) =>
            out' = log[1].data]_vars

\* C27 witness: int 42 packed at offset 0, a second pack right behind it, and
\* 42 unpacked from offset 0 afterwards.
C27_Witness ==
    /\ pc = "read"
    /\ status = "ok"
    /\ log[3].which = 1
    /\ log[2].op = "pack"
    /\ CallBytes > 0
    /\ log[2].index = FirstBytes
    /\ log[1].kind = "int"
    /\ log[1].n = 1
    /\ d_buffer[4] # 0
    /\ got[1] = <<42, 0, 0, 0>>

\* C29 as stated: pack and unpack never decrease the cursor; a call with n = 0
\* from a cursor in [0, capacity] leaves cursor, mark and buffer unchanged; a
\* step that decreases the cursor is a setCurrentIndex or resetIndex call.
C29_ZeroCountChangesNothing ==
    [][/\ DataCall => d_buffer_index' >= d_buffer_index
       /\ (DataCall /\ call'.n = 0 /\ d_buffer_index \in 0 .. d_buffer_size) =>
            /\ d_buffer_index' = d_buffer_index
            /\ d_current_size' = d_current_size
            /\ d_buffer' = d_buffer
       /\ (Step /\ d_buffer_index' < d_buffer_index) =>
            call'.op \in {"setCurrentIndex", "resetIndex"}]_vars

\* C29 amended: as above, but a call with n = 0 raises the mark to the cursor
\* when the cursor is above the mark, and leaves the mark unchanged otherwise.
C29_ZeroCountKeepsCursorAndBuffer ==
    [][/\ DataCall => d_buffer_index' >= d_buffer_index
       /\ (DataCall /\ call'.n = 0 /\ d_buffer_index \in 0 .. d_buffer_size) =>
            /\ status' = "ok"
            /\ d_buffer_index' = d_buffer_index
            /\ d_current_size' = Max(d_current_size, d_buffer_index)
            /\ d_buffer' = d_buffer
       /\ (Step /\ d_buffer_index' < d_buffer_index) =>
            call'.op \in {"setCurrentIndex", "resetIndex"}]_vars

\* C29 witness: a call with n = 0, made with the cursor above the mark, has
\* returned; the mark is now the cursor, and a resetIndex then moved the cursor
\* backward.
C29_Witness ==
    /\ pc = "back"
    /\ status = "ok"
    /\ log[3].which = 1
    /\ log[2].n = 0
    /\ FirstBytes > 0
    /\ log[2].index > FirstBytes
    /\ getCurrentSize = log[2].index
    /\ getCurrentIndex = 0

----------------------------------------------------------------------------
(* Stream operators: after one arbitrary call, with the cursor left where   *)
(* it is or put back to 0, a caller writes one statement that chains up to  *)
(* MaxSeq insertions (stream << a << b) or extractions (stream >> a >> b).  *)
(* Each operator call is made on what the call to its left returned.  log   *)
(* holds the operator calls made, got what the last one returned and the    *)
(* values extracted.                                                        *)

\* The values a caller inserts: one element of kind K.
Values(K) == {Elems(K)[1], Elems(K)[2]}

\* &data as pack receives it: an array of one element.
OneArray(K, data) == IF K = "bool" THEN <<data>> ELSE data

\* The element unpack(&data, 1) leaves in data.
OneValue(K, array) == IF K = "bool" THEN array[1] ELSE array

\* return *this;
operatorReturn == "this"

\* Variant: a bool is inserted as the character '1' or '0'.
InsertFormatsBool(K, data) ==
    IF K = "bool" THEN pack("char", <<IF data THEN 49 ELSE 48>>, 1)
    ELSE pack(K, OneArray(K, data), 1)

\* operator<<(const T& data): pack(&data, 1).
operatorInsert(K, data) == pack(K, OneArray(K, data), 1)

\* operator>>(T& data): unpack(&data, 1).
operatorExtract(K) == unpack(K, 1)

DoInsert(K, data) ==
    /\ Alive
    /\ operatorInsert(K, data)
    /\ Record([op |-> "operator<<", kind |-> K, n |-> 1, arg |-> 0])

DoExtract(K) ==
    /\ Alive
    /\ operatorExtract(K)
    /\ Record([op |-> "operator>>", kind |-> K, n |-> 1, arg |-> 0])

OpUse ==
    /\ pc = "free"
    /\ AnyCall
    /\ pc' = "used"
    /\ UNCHANGED <<log, got>>

OpBegin ==
    /\ pc = "used"
    /\ \E i \in {0, d_buffer_index} : DoSetCurrentIndex(i)
    /\ pc' = "statement"
    /\ log' = <<>>
    /\ got' = [ret |-> "this", vals |-> <<>>]

OpInsert ==
    /\ pc \in {"statement", "inserting"}
    /\ Len(log) < MaxSeq
    /\ got.ret = "this"
    /\ \E K \in Kinds : \E data \in Values(K) :
          /\ DoInsert(K, data)
          /\ log' = Append(log, [kind |-> K, n |-> 1, data |-> OneArray(K, data),
                                 index |-> d_buffer_index])
    /\ pc' = "inserting"
    /\ got' = [ret |-> operatorReturn, vals |-> got.vals]

OpExtract ==
    /\ pc \in {"statement", "extracting"}
    /\ Len(log) < MaxSeq
    /\ got.ret = "this"
    /\ \E K \in Kinds :
          /\ DoExtract(K)
          /\ log' = Append(log, [kind |-> K, n |-> 1, data |-> <<>>,
                                 index |-> d_buffer_index])
          /\ got' = [ret |-> operatorReturn,
                     vals |-> IF status' = "ok" THEN Append(got.vals, OneValue(K, out'))
                              ELSE got.vals]
    /\ pc' = "extracting"

NextOperators ==
    \/ OpUse
    \/ OpBegin
    \/ OpInsert
    \/ OpExtract

SpecOperators == Init /\ [][NextOperators]_vars

\* C28: stream << v is a step of pack(&v, 1) and stream >> v is a step of
\* unpack(&v, 1) whose result is v; each returns the stream, and the k-th
\* operator call of a statement begins where the one on its left ended, so a
\* chain of insertions stores its values side by side in the order written.
C28_OperatorsArePackUnpackOfOne ==
    [][/\ (Step /\ call'.op = "operator<<") =>
            /\ pack(call'.kind, log'[Len(log')].data, 1)
            /\ got'.ret = "this"
       /\ (Step /\ call'.op = "operator>>") =>
            /\ unpack(call'.kind, 1)
            /\ got'.ret = "this"
            /\ status' = "ok" =>
                 /\ Len(got'.vals) = Len(log')
                 /\ got'.vals[Len(log')] =
                      IF call'.kind = "bool" THEN d_buffer[d_buffer_index] = 1
                      ELSE Loaded(d_buffer_index, PackedWidth(call'.kind), 0)
       /\ (pc' \in {"inserting", "extracting"} /\ status' = "ok") =>
            /\ d_buffer_index' = log'[1].index + LogBytes(log')
            /\ \A k \in 1 .. Len(log') :
                  log'[k].index = log'[1].index + LogBytes(SubSeq(log', 1, k - 1))
       /\ (pc' = "inserting" /\ status' = "ok") =>
            \A o \in 1 .. LogBytes(log') :
                d_buffer'[log'[1].index + o - 1] = FlatBytes(log')[o]]_vars

\* C28 witness: stream << 42 << 3.14 written behind earlier data: 42 at the
\* start offset, 3.14 four bytes on, the cursor twelve bytes on.
C28_Witness ==
    /\ pc = "inserting"
    /\ status = "ok"
    /\ Len(log) = 2
    /\ log[1].kind = "int"
    /\ log[2].kind = "double"
    /\ log[1].index > 0
    /\ getCurrentIndex = log[1].index + 12
    /\ d_buffer[0] # 0
    /\ d_buffer[log[1].index] = 42
    /\ d_buffer[log[1].index + 4] = 31

\* A chain of two extractions over packed data, the second one a bool.
C28_ExtractReached ==
    /\ pc = "extracting"
    /\ status = "ok"
    /\ Len(got.vals) = 2
    /\ log[1].kind = "char"
    /\ log[2].kind = "bool"
    /\ got.vals[1] = <<65>>
    /\ got.vals[2] = FALSE
    /\ d_buffer[1] = 255

----------------------------------------------------------------------------
(* IBAnchorPointSpec registration: NumProcs MPI processes, each with its    *)
(* own STREAMABLE_CLASS_ID and its own StreamableManager, call              *)
(* registerWithStreamableManager() up to MaxCalls times; between calls a    *)
(* process may register the factories of other classes.  pc is the position *)
(* of each process, log its memory, got the build (with or without          *)
(* assertions).  No stream is involved.                                     *)

Procs == 1 .. NumProcs

\* StreamableManager::getUnregisteredID().
getUnregisteredID == 0 - 1

\* A process's memory: the class's static ID, the manager's next free ID, the
\* number of IBAnchorPointSpecFactory objects in the manager's factory map, the
\* calls made and other factories registered so far, and the registration
\* functions the process has called, in call order.
ProcInit == [STREAMABLE_CLASS_ID |-> getUnregisteredID, next_id |-> 0, factories |-> 0,
             calls |-> 0, others |-> 0, order |-> <<>>]

InitRegistration ==
    /\ StreamInit
    /\ call = NoCall
    /\ hist = NoHist
    /\ nops = 0
    /\ pc = [p \in Procs |-> "idle"]
    /\ log = [p \in Procs |-> ProcInit]
    /\ got \in {[debug |-> b] : b \in BOOLEAN}

StreamIdle ==
    UNCHANGED <<d_buffer_size, d_current_size, d_buffer_index, d_buffer, status, out,
                touched, call, hist, nops>>

\* IBAnchorPointSpec::getIsRegisteredWithStreamableManager().
getIsRegisteredWithStreamableManager(p) == log[p].STREAMABLE_CLASS_ID # getUnregisteredID

\* Variant: the function begins with the test, without the first barrier.
RegCallWithoutBarrier(p) ==
    /\ pc[p] = "idle"
    /\ log[p].calls < MaxCalls
    /\ pc' = [pc EXCEPT ![p] = "test"]
    /\ log' = [log EXCEPT ![p].calls = @ + 1,
                          ![p].order = Append(@, "IBAnchorPointSpec")]
    /\ got' = got
    /\ StreamIdle

\* Process p enters registerWithStreamableManager() and reaches the first barrier.
RegCall(p) ==
    /\ pc[p] = "idle"
    /\ log[p].calls < MaxCalls
    /\ pc' = [pc EXCEPT ![p] = "barrier 1"]
    /\ log' = [log EXCEPT ![p].calls = @ + 1,
                          ![p].order = Append(@, "IBAnchorPointSpec")]
    /\ got' = got
    /\ StreamIdle

\* SAMRAI_MPI::barrier(): when every process waits at a barrier, all go on.
RegBarrier ==
    /\ \A p \in Procs : pc[p] \in {"barrier 1", "barrier 2"}
    /\ pc' = [p \in Procs |-> IF pc[p] = "barrier 1" THEN "test" ELSE "idle"]
    /\ UNCHANGED <<log, got>>
    /\ StreamIdle

\* Variant: the registration is made on every call.
RegTestAlwaysRegisters(p) ==
    /\ pc[p] = "test"
    /\ pc' = [pc EXCEPT ![p] = IF got.debug THEN "assert" ELSE "register"]
    /\ UNCHANGED <<log, got>>
    /\ StreamIdle

\* if (!getIsRegisteredWithStreamableManager())
RegTest(p) ==
    /\ pc[p] = "test"
    /\ pc' = [pc EXCEPT ![p] = IF getIsRegisteredWithStreamableManager(p) THEN "barrier 2"
                               ELSE IF got.debug THEN "assert" ELSE "register"]
    /\ UNCHANGED <<log, got>>
    /\ StreamIdle

\* TBOX_ASSERT(STREAMABLE_CLASS_ID == StreamableManager::getUnregisteredID());
RegAssert(p) ==
    /\ pc[p] = "assert"
    /\ pc' = [pc EXCEPT ![p] = IF log[p].STREAMABLE_CLASS_ID = getUnregisteredID
                               THEN "register" ELSE "aborted"]
    /\ UNCHANGED <<log, got>>
    /\ StreamIdle

\* StreamableManager::registerFactory: the factory is stored under the next
\* free ID, which is returned.
registerFactory(m) == [id |-> m.next_id, next_id |-> m.next_id + 1]

\* Variant: only the first process registers the factory.
RegRegisterOnRootOnly(p) ==
    /\ pc[p] = "register"
    /\ LET r == registerFactory(log[p])
       IN  log' = IF p = 1
                  THEN [log EXCEPT ![p].STREAMABLE_CLASS_ID = r.id,
                                   ![p].next_id = r.next_id,
                                   ![p].factories = @ + 1]
                  ELSE log
    /\ pc' = [pc EXCEPT ![p] = "barrier 2"]
    /\ got' = got
    /\ StreamIdle

\* STREAMABLE_CLASS_ID = getManager()->registerFactory(new IBAnchorPointSpecFactory());
RegRegister(p) ==
    /\ pc[p] = "register"
    /\ LET r == registerFactory(log[p])
       IN  log' = [log EXCEPT ![p].STREAMABLE_CLASS_ID = r.id,
                              ![p].next_id = r.next_id,
                              ![p].factories = @ + 1]
    /\ pc' = [pc EXCEPT ![p] = "barrier 2"]
    /\ got' = got
    /\ StreamIdle

\* Another class registers its factory with process p's manager.
RegOther(p) ==
    /\ pc[p] = "idle"
    /\ log[p].others < MaxOther
    /\ log' = [log EXCEPT ![p].next_id = registerFactory(log[p]).next_id,
                          ![p].others = @ + 1,
                          ![p].order = Append(@, "other")]
    /\ UNCHANGED <<pc, got>>
    /\ StreamIdle

NextRegistration ==
    \/ RegBarrier
    \/ \E p \in Procs :
          \/ RegCall(p)
          \/ RegTest(p)
          \/ RegAssert(p)
          \/ RegRegister(p)
          \/ RegOther(p)

SpecRegistration == InitRegistration /\ [][NextRegistration]_vars

StepDone(q, k) ==
    \/ log[q].calls > k
    \/ log[q].calls = k /\ pc[q] \in {"barrier 2", "idle"}

C31_ReturnedReached ==
    \E p \in Procs : \E q \in Procs :
        /\ pc[p] = "idle"
        /\ log[p].calls = 1
        /\ pc[q] = "barrier 1"
        /\ log[q].calls > log[p].calls
        /\ \A r \in Procs : log[r].factories = 1

\* Processes p and q have called the registration functions in the same order,
\* as far as both have come.
SameOrder(p, q) ==
    \A k \in 1 .. Len(log[p].order) :
        k <= Len(log[q].order) => log[p].order[k] = log[q].order[k]

C32_DifferentOrderReached ==
    \E p \in Procs : \E q \in Procs :
        /\ pc[p] = "idle"
        /\ pc[q] = "idle"
        /\ ~SameOrder(p, q)
        /\ log[p].STREAMABLE_CLASS_ID = 0
        /\ log[q].STREAMABLE_CLASS_ID = 1

C33_SecondCallReached ==
    /\ got.debug
    /\ \A p \in Procs : pc[p] = "idle" /\ log[p].calls = 2 /\ log[p].factories = 1

====
